---------------------------- MODULE Spec2Model ----------------------------
(***************************************************************************)
(* Model of the IP based rate limiter (package limiter).                   *)
(*                                                                         *)
(* Time is a discrete clock `now`; one unit is one second.  An identity    *)
(* (ip) is a sequence of one-character strings, so that strings.HasPrefix  *)
(* is computed and not assumed.  A *record and the *rate.Limiter it holds  *)
(* are created together and never separated, so both are one heap cell of  *)
(* `recs`; a pointer is the cell's index, 0 is "no such key" and NilRec is  *)
(* a key that holds a nil *record.                                         *)
(***************************************************************************)
EXTENDS Integers, Sequences, FiniteSets, TLC

\* ------------------------------------------------------------------ bounds
\* The clock stops at MaxTime.
MaxTime == 2
\* Largest magnitude of an argument tried on an option constructor.
MaxArg == 1

\* --------------------------------------------------------------- constants
defaultRps == 10
defaultBurst == 20
defaultTTL == 300
defaultCleanupFrequency == 300
defaultPeriod == 1

\* The request goroutines, each serving one request, and the identities
\* the requests present.
Threads == {"t1", "t2"}
EmptyIP == << >>
PlainIP == <<"9">>
ListedIP == <<"1", "0">>
IPs == {EmptyIP, PlainIP, ListedIP}
Adapters == {"Limit", "GinLimit"}

Min(a, b) == IF a < b THEN a ELSE b

\* ----------------------------------------------------------------- options
defautlOptions ==
    [ttl |-> defaultTTL, requests |-> defaultRps, burst |-> defaultBurst,
     period |-> defaultPeriod, customPeriod |-> FALSE,
     cleanupFreq |-> defaultCleanupFrequency,
     allowedPrefix |-> << >>, allowedIPs |-> {}]

RpsWithBurst(o, rps, burst) ==
    LET r == IF rps < 0 THEN defaultRps ELSE rps
        b == IF burst < 0 THEN defaultRps ELSE burst
    IN  [o EXCEPT !.requests = r, !.burst = b]

Rps(o, rps) ==
    LET r == IF rps < 0 THEN defaultRps ELSE rps
    IN  [o EXCEPT !.requests = r, !.burst = r]

Burst(o, burst) ==
    LET b == IF burst < 0 THEN defaultBurst ELSE burst
    IN  [o EXCEPT !.burst = b]

Period(o, requests, period) ==
    LET p == IF period < 0 THEN defaultPeriod ELSE period
        r == IF requests < 0 THEN 0 ELSE requests
    IN  [o EXCEPT !.period = p, !.customPeriod = TRUE, !.requests = r]

CleanupFrequency(o, cf) ==
    LET c == IF cf <= 0 THEN defaultCleanupFrequency ELSE cf
    IN  [o EXCEPT !.cleanupFreq = c]

RecordTTL(o, ttl) ==
    LET t == IF ttl < 0 THEN defaultTTL ELSE ttl
    IN  [o EXCEPT !.ttl = t]

AllowedIPs(o, ips) == [o EXCEPT !.allowedIPs = @ \cup ips]

AllowedPrefixes(o, prefixes) == [o EXCEPT !.allowedPrefix = @ \o prefixes]

\* The limit taken from the defaults, as if computed before the options were
\* applied.
NewLimitBeforeOpts(o) ==
    [kind |-> "fin", num |-> defautlOptions.requests, den |-> defautlOptions.period]

\* rate.Limit(float64(o.requests) / o.period.Seconds()): a float division, so
\* a zero period gives +Inf (requests > 0) or NaN (requests = 0).
NewLimit(o) ==
    IF o.period = 0
    THEN [kind |-> IF o.requests > 0 THEN "inf" ELSE "nan", num |-> 0, den |-> 1]
    ELSE [kind |-> "fin", num |-> o.requests, den |-> o.period]

\* ---------------------------------------------------------------- allow-list
HasPrefix(s, p) == Len(p) <= Len(s) /\ SubSeq(s, 1, Len(p)) = p

hasWhitelistedPrefix(o, ip) ==
    \E i \in 1..Len(o.allowedPrefix) : HasPrefix(ip, o.allowedPrefix[i])

whiteListed(o, ip) == ip \in o.allowedIPs \/ hasWhitelistedPrefix(o, ip)


\* ------------------------------------------------------------ token bucket
\* tokens are kept in units of 1/limit.den of a token: a whole token is
\* limit.den units and limit.num units are added per second.
NewLimiter(lim, burst) == [tokens |-> burst * lim.den, last |-> 0, burst |-> burst]

\* tryAdmit at time t on bucket b: the decision and the bucket afterwards.
\* An infinite rate admits always; a rate of 0 never refills, so the clock
\* is not read.
Allow(b, lim, t) ==
    CASE lim.kind = "inf" -> [ok |-> TRUE, b |-> b]
      [] lim.kind = "nan" -> [ok |-> b.burst >= 1, b |-> b]
      [] lim.num = 0 ->
            IF b.tokens >= lim.den
            THEN [ok |-> TRUE,  b |-> [b EXCEPT !.tokens = @ - lim.den]]
            ELSE [ok |-> FALSE, b |-> b]
      [] OTHER ->
            LET elapsed == IF t < b.last THEN 0 ELSE t - b.last
                tokens  == Min(b.burst * lim.den, b.tokens + elapsed * lim.num)
            IN  IF tokens >= lim.den
                THEN [ok |-> TRUE,  b |-> [b EXCEPT !.tokens = tokens - lim.den, !.last = t]]
                ELSE [ok |-> FALSE, b |-> [b EXCEPT !.tokens = tokens, !.last = t]]

\* ------------------------------------------------------------------- state
VARIABLES
    opts,       \* limiterOptions, fixed by New
    limit,      \* lim.limit
    storage,    \* lim.storage: ip -> cell index, 0 when the key is absent
    recs,       \* heap of record cells: [lastSeen, tokens, last, burst]
    rw,         \* the embedded sync.RWMutex: who holds it exclusively
    pc,         \* position of each request goroutine
    req,        \* the request each goroutine serves: [ip, adapter]
    v,          \* visitor's local v (found entry) / returned limiter
    resp,       \* the response written so far: [status, body]
    epc,        \* position of the scheduleCleanup goroutine
    exp,        \* cleanup's exp slice, as the set of keys it holds
    tick,       \* a tick is waiting in ti.C
    stop,       \* lim.stop: "open" or "closed"
    panicked,   \* the process died of an unrecovered panic
    now,        \* the clock
    hist,       \* per identity: what happened since its key was last absent;
                \* idle: its entry has at some time been idle for the TTL
    lastAdmit,  \* per identity: time of the last admitted request, -1 if none
    lastOpt,    \* the option constructor applied last, with its arguments
    call        \* per goroutine, from visitor's lookup to its return: whether
                \* a sweep has deleted the goroutine's key since the lookup

vars == <<opts, limit, storage, recs, rw, pc, req, v, resp, epc, exp, tick,
          stop, panicked, now, hist, lastAdmit, lastOpt, call>>

MaxRecs == Cardinality(IPs) + Cardinality(Threads)
NoWriter == "none"
Evictor == "evictor"
FreeRec == [lastSeen |-> 0, tokens |-> 0, last |-> 0, burst |-> 0]
NoReq == [ip |-> EmptyIP, adapter |-> "Limit"]
NoResp == [status |-> 0, body |-> << >>]
NilRec == 0 - 1
NoHist == [calls |-> 0, admits |-> 0, created |-> 0, evicted |-> FALSE, overlap |-> FALSE,
           idle |-> FALSE]
NoCall == [swept |-> FALSE]
NoOpt == [name |-> "none", a |-> 0, b |-> 0]
tooManyReqMsg == "Too many requests"

\* A cell nothing points to any more is garbage; it is returned to FreeRec.
Referenced(st, vv) == ({st[ip] : ip \in IPs} \cup {vv[t] : t \in Threads}) \ {0, NilRec}
Collect(rs, st, vv) == [i \in 1..MaxRecs |-> IF i \in Referenced(st, vv) THEN rs[i] ELSE FreeRec]
NewId(st, vv) == CHOOSE i \in 1..MaxRecs :
                    /\ i \notin Referenced(st, vv)
                    /\ \A j \in 1..MaxRecs : j \notin Referenced(st, vv) => i <= j

Bucket(r) == [tokens |-> r.tokens, last |-> r.last, burst |-> r.burst]
Record(seen, l) == [lastSeen |-> seen, tokens |-> l.tokens, last |-> l.last, burst |-> l.burst]

\* The limiter sized by the request count in place of the burst.
NewBucketRps == NewLimiter(limit, opts.requests)

\* visitor, line 110: rate.NewLimiter(lim.limit, lim.opts.burst)
NewBucket == NewLimiter(limit, opts.burst)

\* New(opts...): the options applied to the defaults, an empty storage, an
\* open stop channel, and the cleanup goroutine started.
New(o) ==
    /\ opts = o
    /\ limit = NewLimit(o)
    /\ storage = [ip \in IPs |-> 0]
    /\ recs = [i \in 1..MaxRecs |-> FreeRec]
    /\ rw = NoWriter
    /\ epc = "select"
    /\ exp = {}
    /\ tick = FALSE
    /\ stop = "open"

Idle ==
    /\ pc = [t \in Threads |-> "idle"]
    /\ req = [t \in Threads |-> NoReq]
    /\ v = [t \in Threads |-> 0]
    /\ resp = [t \in Threads |-> NoResp]
    /\ panicked = FALSE
    /\ now = 0
    /\ hist = [ip \in IPs |-> NoHist]
    /\ lastAdmit = [ip \in IPs |-> -1]
    /\ call = [t \in Threads |-> NoCall]

\* The configurations a run starts from.  Every one allow-lists ListedIP, by
\* exact match or by prefix, and sweeps every two seconds with a TTL of one.
Sweeps(o) == CleanupFrequency(RecordTTL(o, 1), 2)
Configs ==
    {Sweeps(AllowedIPs(RpsWithBurst(defautlOptions, 0, 1), {ListedIP})),
     Sweeps(AllowedIPs(Burst(Period(defautlOptions, 1, 2), 1), {ListedIP})),
     Sweeps(AllowedPrefixes(RpsWithBurst(defautlOptions, 1, 0), << <<"1">> >>))}

Init ==
    /\ \E o \in Configs : New(o)
    /\ Idle
    /\ lastOpt = NoOpt

\* ------------------------------------------------------- request goroutines
InFlight(ip) == {t \in Threads : pc[t] \notin {"idle", "done"} /\ req[t].ip = ip}

\* The downstream handler (next.ServeHTTP / c.Next): writes 200 and "OK".
ServeNext(r) == [status |-> IF r.status = 0 THEN 200 ELSE r.status,
                 body |-> Append(r.body, "OK")]

\* http.Error / c.String with http.StatusTooManyRequests: the status of a
\* response is the first one written.
TooManyRequests(r) == [status |-> IF r.status = 0 THEN 429 ELSE r.status,
                       body |-> Append(r.body, tooManyReqMsg)]

\* Goroutines are interchangeable: t1 is the one that starts first.
FirstIdle(t) == pc[t] = "idle" /\ (t = "t2" => pc["t1"] # "idle")

\* Limit / GinLimit up to the call of visitor.  Limit returns after serving
\* an allow-listed request; GinLimit calls c.Next() and goes on.
Handle(t, ip, adapter) ==
    /\ ~panicked
    /\ FirstIdle(t)
    /\ req' = [req EXCEPT ![t] = [ip |-> ip, adapter |-> adapter]]
    /\ IF whiteListed(opts, ip)
       THEN /\ resp' = [resp EXCEPT ![t] = ServeNext(NoResp)]
            /\ pc' = [pc EXCEPT ![t] = IF adapter = "Limit" THEN "done" ELSE "visitor"]
       ELSE /\ resp' = [resp EXCEPT ![t] = NoResp]
            /\ pc' = [pc EXCEPT ![t] = "visitor"]
    /\ hist' = IF pc'[t] = "visitor" /\ InFlight(ip) # {}
               THEN [hist EXCEPT ![ip].overlap = TRUE]
               ELSE hist
    /\ UNCHANGED <<opts, limit, storage, recs, rw, v, epc, exp, tick, stop,
                   panicked, now, lastAdmit, lastOpt, call>>

\* visitor, lines 105-109: lim.RLock(); v, e := lim.storage[ip];
\* lim.RUnlock(); if !e.  The shared lock is taken and released in the step.
VisitorLookup(t) ==
    /\ ~panicked
    /\ pc[t] = "visitor"
    /\ rw = NoWriter
    /\ v' = [v EXCEPT ![t] = storage[req[t].ip]]
    /\ pc' = [pc EXCEPT ![t] = IF storage[req[t].ip] = 0 THEN "miss" ELSE "hit"]
    /\ call' = [call EXCEPT ![t] = NoCall]
    /\ UNCHANGED <<opts, limit, storage, recs, rw, req, resp, epc, exp, tick,
                   stop, panicked, now, hist, lastAdmit, lastOpt>>

\* visitor, lines 112 and 123: lim.Lock().  A found v that is nil skips the
\* lock (line 122) and v.limiter, line 128, dereferences nil.
VisitorLock(t) ==
    /\ ~panicked
    /\ pc[t] \in {"miss", "hit"}
    /\ IF pc[t] = "hit" /\ v[t] = NilRec
       THEN /\ panicked' = TRUE
            /\ UNCHANGED <<rw, pc>>
       ELSE /\ rw = NoWriter
            /\ rw' = t
            /\ pc' = [pc EXCEPT ![t] = IF pc[t] = "miss" THEN "insert" ELSE "touch"]
            /\ UNCHANGED panicked
    /\ UNCHANGED <<opts, limit, storage, recs, req, v, resp, epc, exp, tick,
                   stop, now, hist, lastAdmit, lastOpt, call>>

\* The insert that stores a map holding the new key alone.
VisitorInsertAlone(t) ==
    /\ ~panicked
    /\ pc[t] = "insert"
    /\ LET ip == req[t].ip
           id == NewId(storage, v)
       IN  /\ storage' = [k \in IPs |-> IF k = ip THEN id ELSE 0]
           /\ v' = [v EXCEPT ![t] = id]
           /\ recs' = Collect([recs EXCEPT ![id] = Record(now, NewBucket)], storage', v')
           /\ hist' = [hist EXCEPT ![ip].created = @ + 1,
                                   ![ip].idle = @ \/ opts.ttl <= 0]
    /\ rw' = NoWriter
    /\ pc' = [pc EXCEPT ![t] = "allow"]
    /\ call' = [call EXCEPT ![t] = NoCall]
    /\ UNCHANGED <<opts, limit, req, resp, epc, exp, tick, stop, panicked, now,
                   lastAdmit, lastOpt>>

\* visitor, lines 110-119: the new limiter is stored in a new record under
\* ip, whatever the key holds by now, and returned.  (NewLimiter, line 110,
\* reads neither the clock nor shared state, so the cell is made here.)
VisitorInsert(t) ==
    /\ ~panicked
    /\ pc[t] = "insert"
    /\ LET ip == req[t].ip
           id == NewId(storage, v)
       IN  /\ storage' = [storage EXCEPT ![ip] = id]
           /\ v' = [v EXCEPT ![t] = id]
           /\ recs' = Collect([recs EXCEPT ![id] = Record(now, NewBucket)], storage', v')
           /\ hist' = [hist EXCEPT ![ip].created = @ + 1,
                                   ![ip].idle = @ \/ opts.ttl <= 0]
    /\ rw' = NoWriter
    /\ pc' = [pc EXCEPT ![t] = "allow"]
    /\ call' = [call EXCEPT ![t] = NoCall]
    /\ UNCHANGED <<opts, limit, req, resp, epc, exp, tick, stop, panicked, now,
                   lastAdmit, lastOpt>>

\* The found path returning without lim.Unlock().
VisitorTouchHeld(t) ==
    /\ ~panicked
    /\ pc[t] = "touch"
    /\ recs' = [recs EXCEPT ![v[t]].lastSeen = now]
    /\ pc' = [pc EXCEPT ![t] = "allow"]
    /\ call' = [call EXCEPT ![t] = NoCall]
    /\ UNCHANGED <<opts, limit, storage, rw, req, v, resp, epc, exp, tick, stop,
                   panicked, now, hist, lastAdmit, lastOpt>>

\* The found path without the update of lastSeen.
VisitorTouchNone(t) ==
    /\ ~panicked
    /\ pc[t] = "touch"
    /\ rw' = NoWriter
    /\ pc' = [pc EXCEPT ![t] = "allow"]
    /\ call' = [call EXCEPT ![t] = NoCall]
    /\ UNCHANGED <<opts, limit, storage, recs, req, v, resp, epc, exp, tick, stop,
                   panicked, now, hist, lastAdmit, lastOpt>>

\* visitor, lines 122-128: v.lastSeen = time.Now() on the record that was
\* found, which the map may no longer hold; its limiter is returned.
VisitorTouch(t) ==
    /\ ~panicked
    /\ pc[t] = "touch"
    /\ recs' = [recs EXCEPT ![v[t]].lastSeen = now]
    /\ rw' = NoWriter
    /\ pc' = [pc EXCEPT ![t] = "allow"]
    /\ call' = [call EXCEPT ![t] = NoCall]
    /\ UNCHANGED <<opts, limit, storage, req, v, resp, epc, exp, tick, stop,
                   panicked, now, hist, lastAdmit, lastOpt>>

\* The decision with a lost update: the bucket is not written back while
\* another goroutine is about to decide on the same bucket.
RespondStale(t) ==
    /\ ~panicked
    /\ pc[t] = "allow"
    /\ LET ip == req[t].ip
           a  == Allow(Bucket(recs[v[t]]), limit, now)
           ran == resp[t].body # << >>
           shared == \E u \in Threads \ {t} : pc[u] = "allow" /\ v[u] = v[t]
       IN  /\ v' = [v EXCEPT ![t] = 0]
           /\ recs' = IF shared THEN recs
                      ELSE Collect([recs EXCEPT ![v[t]].tokens = a.b.tokens,
                                                ![v[t]].last = a.b.last],
                                   storage, v')
           /\ resp' = [resp EXCEPT ![t] =
                         IF ~a.ok THEN TooManyRequests(@)
                         ELSE IF ran THEN @ ELSE ServeNext(@)]
           /\ hist' = [hist EXCEPT ![ip].calls = @ + 1,
                                   ![ip].admits = IF a.ok THEN @ + 1 ELSE @]
           /\ lastAdmit' = IF a.ok THEN [lastAdmit EXCEPT ![ip] = now] ELSE lastAdmit
    /\ pc' = [pc EXCEPT ![t] = "done"]
    /\ UNCHANGED <<opts, limit, storage, rw, req, epc, exp, tick, stop,
                   panicked, now, lastOpt, call>>

\* Limit lines 42-47, GinLimit lines 72-79: Allow() on the returned limiter,
\* then either the 429 response or the downstream handler.  In GinLimit the
\* handlers that c.Next() already ran are not run again by a second c.Next().
Respond(t) ==
    /\ ~panicked
    /\ pc[t] = "allow"
    /\ LET ip == req[t].ip
           a  == Allow(Bucket(recs[v[t]]), limit, now)
           ran == resp[t].body # << >>
       IN  /\ v' = [v EXCEPT ![t] = 0]
           /\ recs' = Collect([recs EXCEPT ![v[t]].tokens = a.b.tokens,
                                           ![v[t]].last = a.b.last],
                              storage, v')
           /\ resp' = [resp EXCEPT ![t] =
                         IF ~a.ok THEN TooManyRequests(@)
                         ELSE IF ran THEN @ ELSE ServeNext(@)]
           /\ hist' = [hist EXCEPT ![ip].calls = @ + 1,
                                   ![ip].admits = IF a.ok THEN @ + 1 ELSE @]
           /\ lastAdmit' = IF a.ok THEN [lastAdmit EXCEPT ![ip] = now] ELSE lastAdmit
    /\ pc' = [pc EXCEPT ![t] = "done"]
    /\ UNCHANGED <<opts, limit, storage, rw, req, epc, exp, tick, stop,
                   panicked, now, lastOpt, call>>

\* ----------------------------------------------------------------- evictor
\* scheduleCleanup's select takes the tick, and cleanup starts: line 260
\* sizes exp from len(lim.storage), read without the lock, and make fills
\* it with that many empty strings.
Len2(st) == Cardinality({ip \in IPs : st[ip] # 0}) \div 2

\* What that unlocked read can give: the size of the map, or, while a
\* goroutine holds the lock to insert a new key, the size with that key.
Len2Seen ==
    {Len2(storage)} \cup
    {Len2([storage EXCEPT ![req[t].ip] = NewId(storage, v)]) :
        t \in {u \in Threads : rw = u /\ pc[u] = "insert"}}

SelectTick ==
    /\ ~panicked
    /\ epc = "select"
    /\ tick
    /\ tick' = FALSE
    /\ \E n \in Len2Seen : exp' = IF n > 0 THEN {EmptyIP} ELSE {}
    /\ epc' = "scan"
    /\ UNCHANGED <<opts, limit, storage, recs, rw, pc, req, v, resp, stop,
                   panicked, now, hist, lastAdmit, lastOpt, call>>

\* scheduleCleanup's select takes the closed stop channel and returns.
SelectStop ==
    /\ ~panicked
    /\ epc = "select"
    /\ stop = "closed"
    /\ epc' = "returned"
    /\ UNCHANGED <<opts, limit, storage, recs, rw, pc, req, v, resp, exp, tick,
                   stop, panicked, now, hist, lastAdmit, lastOpt, call>>

\* The scan with the age taken backwards (time.Until for time.Since).
ExpiredUntil(st, rs, t, ttl) == {ip \in IPs : st[ip] # 0 /\ rs[st[ip]].lastSeen - t >= ttl}

\* The scan with a strict comparison: an age of exactly the TTL is kept.
ExpiredStrict(st, rs, t, ttl) ==
    {ip \in IPs : st[ip] # 0 /\ (st[ip] = NilRec \/ t - rs[st[ip]].lastSeen > ttl)}

\* The keys cleanup's loop appends: v == nil ||
\* time.Since(v.lastSeen) >= lim.opts.ttl
Expired(st, rs, t, ttl) ==
    {ip \in IPs : st[ip] # 0 /\ (st[ip] = NilRec \/ t - rs[st[ip]].lastSeen >= ttl)}

\* cleanup, lines 262-272: lim.RLock(), the scan, lim.RUnlock().  The shared
\* lock is taken and released in the step.
CleanupScan ==
    /\ ~panicked
    /\ epc = "scan"
    /\ rw = NoWriter
    /\ exp' = exp \cup Expired(storage, recs, now, opts.ttl)
    /\ epc' = "lock"
    /\ UNCHANGED <<opts, limit, storage, recs, rw, pc, req, v, resp, tick, stop,
                   panicked, now, hist, lastAdmit, lastOpt, call>>

\* cleanup, line 274: lim.Lock()
CleanupLock ==
    /\ ~panicked
    /\ epc = "lock"
    /\ rw = NoWriter
    /\ rw' = Evictor
    /\ epc' = "delete"
    /\ UNCHANGED <<opts, limit, storage, recs, pc, req, v, resp, exp, tick,
                   stop, panicked, now, hist, lastAdmit, lastOpt, call>>

\* A delete that leaves the key in the map with a nil record.
CleanupDeleteNil ==
    /\ ~panicked
    /\ epc = "delete"
    /\ storage' = [ip \in IPs |-> IF ip \in exp /\ storage[ip] # 0 THEN NilRec ELSE storage[ip]]
    /\ recs' = Collect(recs, storage', v)
    /\ hist' = [ip \in IPs |-> IF ip \in exp /\ storage[ip] # 0
                               THEN [NoHist EXCEPT !.evicted = TRUE,
                                                   !.overlap = InFlight(ip) # {}]
                               ELSE hist[ip]]
    /\ call' = [t \in Threads |->
                  IF pc[t] \in {"miss", "hit"} /\ req[t].ip \in exp
                  THEN [call[t] EXCEPT !.swept = TRUE]
                  ELSE call[t]]
    /\ exp' = {}
    /\ rw' = NoWriter
    /\ epc' = "select"
    /\ UNCHANGED <<opts, limit, pc, req, v, resp, tick, stop, panicked, now,
                   lastAdmit, lastOpt>>

\* cleanup, lines 275-278: delete every key of exp, then lim.Unlock().  The
\* history of a deleted key starts afresh; a request still in flight for it
\* overlaps whatever comes next.
CleanupDelete ==
    /\ ~panicked
    /\ epc = "delete"
    /\ storage' = [ip \in IPs |-> IF ip \in exp THEN 0 ELSE storage[ip]]
    /\ recs' = Collect(recs, storage', v)
    /\ hist' = [ip \in IPs |-> IF ip \in exp /\ storage[ip] # 0
                               THEN [NoHist EXCEPT !.evicted = TRUE,
                                                   !.overlap = InFlight(ip) # {}]
                               ELSE hist[ip]]
    /\ call' = [t \in Threads |->
                  IF pc[t] \in {"miss", "hit"} /\ req[t].ip \in exp
                  THEN [call[t] EXCEPT !.swept = TRUE]
                  ELSE call[t]]
    /\ exp' = {}
    /\ rw' = NoWriter
    /\ epc' = "select"
    /\ UNCHANGED <<opts, limit, pc, req, v, resp, tick, stop, panicked, now,
                   lastAdmit, lastOpt>>

\* A Stop that empties the registry as well.
StopClears ==
    /\ ~panicked
    /\ IF stop = "open"
       THEN stop' = "closed" /\ UNCHANGED panicked
       ELSE panicked' = TRUE /\ UNCHANGED stop
    /\ storage' = [ip \in IPs |-> 0]
    /\ UNCHANGED <<opts, limit, recs, rw, pc, req, v, resp, epc, exp,
                   tick, now, hist, lastAdmit, lastOpt, call>>

\* Stop, line 242: close(lim.stop); closing a closed channel panics.
Stop ==
    /\ ~panicked
    /\ IF stop = "open"
       THEN stop' = "closed" /\ UNCHANGED panicked
       ELSE panicked' = TRUE /\ UNCHANGED stop
    /\ UNCHANGED <<opts, limit, storage, recs, rw, pc, req, v, resp, epc, exp,
                   tick, now, hist, lastAdmit, lastOpt, call>>

\* A second passes; the ticker (line 246) sends on ti.C every cleanupFreq
\* seconds until scheduleCleanup returns, and drops the tick when one waits.
AdvanceTime ==
    /\ ~panicked
    /\ now < MaxTime
    /\ now' = now + 1
    /\ tick' = IF epc # "returned" /\ (now + 1) % opts.cleanupFreq = 0 THEN TRUE ELSE tick
    /\ hist' = [ip \in IPs |->
                  IF storage[ip] \notin {0, NilRec}
                     /\ now + 1 - recs[storage[ip]].lastSeen >= opts.ttl
                  THEN [hist[ip] EXCEPT !.idle = TRUE]
                  ELSE hist[ip]]
    /\ UNCHANGED <<opts, limit, storage, recs, rw, pc, req, v, resp, epc, exp,
                   stop, panicked, lastAdmit, lastOpt, call>>

Next ==
    \/ \E t \in Threads, ip \in IPs, adapter \in Adapters : Handle(t, ip, adapter)
    \/ \E t \in Threads : VisitorLookup(t)
    \/ \E t \in Threads : VisitorLock(t)
    \/ \E t \in Threads : VisitorInsert(t)
    \/ \E t \in Threads : VisitorTouch(t)
    \/ \E t \in Threads : Respond(t)
    \/ SelectTick
    \/ SelectStop
    \/ CleanupScan
    \/ CleanupLock
    \/ CleanupDelete
    \/ Stop
    \/ AdvanceTime

Spec == Init /\ [][Next]_vars

\* While a goroutine or the clock can take a step, one of them does; no
\* request and no call of Stop is ever bound to come.
Progress ==
    \/ \E t \in Threads : VisitorLookup(t)
    \/ \E t \in Threads : VisitorLock(t)
    \/ \E t \in Threads : VisitorInsert(t)
    \/ \E t \in Threads : VisitorTouch(t)
    \/ \E t \in Threads : Respond(t)
    \/ SelectTick
    \/ SelectStop
    \/ CleanupScan
    \/ CleanupLock
    \/ CleanupDelete
    \/ AdvanceTime

Fairness == WF_vars(Progress)

\* The liveness runs start from the configuration of capacity 1 and rate 0.
FairInit ==
    /\ New(Sweeps(AllowedIPs(RpsWithBurst(defautlOptions, 0, 1), {ListedIP})))
    /\ Idle
    /\ lastOpt = NoOpt

FairSpec == FairInit /\ [][Next]_vars /\ Fairness

\* ------------------------------------------------- the option constructors
\* Each option constructor on arguments of either sign, applied as New
\* applies it, the limit computed from the outcome.
Args == (0 - MaxArg)..MaxArg

Configure(o, name, a, b) ==
    /\ opts' = o
    /\ limit' = NewLimit(o)
    /\ lastOpt' = [name |-> name, a |-> a, b |-> b]
    /\ UNCHANGED <<storage, recs, rw, pc, req, v, resp, epc, exp, tick, stop,
                   panicked, now, hist, lastAdmit, call>>

ApplyRpsWithBurst == \E a, b \in Args : Configure(RpsWithBurst(opts, a, b), "RpsWithBurst", a, b)
ApplyRps == \E a \in Args : Configure(Rps(opts, a), "Rps", a, 0)
ApplyBurst == \E a \in Args : Configure(Burst(opts, a), "Burst", a, 0)
ApplyPeriod == \E a, b \in Args : Configure(Period(opts, a, b), "Period", a, b)
ApplyCleanupFrequency == \E a \in Args : Configure(CleanupFrequency(opts, a), "CleanupFrequency", a, 0)
ApplyRecordTTL == \E a \in Args : Configure(RecordTTL(opts, a), "RecordTTL", a, 0)

OptInit ==
    /\ New(defautlOptions)
    /\ Idle
    /\ lastOpt = NoOpt

OptNext ==
    \/ ApplyRpsWithBurst
    \/ ApplyRps
    \/ ApplyBurst
    \/ ApplyPeriod
    \/ ApplyCleanupFrequency
    \/ ApplyRecordTTL

OptSpec == OptInit /\ [][OptNext]_vars

\* ------------------------------------------------------------------ claims
Range(f) == {f[i] : i \in DOMAIN f}
Finished(t) == pc[t] = "done"
Rejected(r) == tooManyReqMsg \in Range(r.body)
Served(r) == "OK" \in Range(r.body)
Responds(t) == pc[t] = "allow" /\ pc'[t] = "done"

\* C1: for an identity whose key has never been evicted, concurrent first
\* callers create exactly one bucket, all hold that same bucket, and (while
\* nothing refills: rate 0, or no time elapsed) the admitted calls number
\* min(calls, capacity).
C1_OneBucketPerIdentity ==
    \A ip \in IPs : ~hist[ip].evicted =>
        /\ hist[ip].created <= 1
        /\ \A t, u \in Threads :
              pc[t] = "allow" /\ pc[u] = "allow" /\ req[t].ip = ip /\ req[u].ip = ip
                  => v[t] = v[u]
        /\ (limit.kind = "fin" /\ (limit.num = 0 \/ now = 0))
              => hist[ip].admits = Min(hist[ip].calls, opts.burst)

\* C2: in both adapters a finished request of an allow-listed identity was
\* served by the downstream handler and got no 429 "Too many requests".
C2_AllowListedAdmitted ==
    \A t \in Threads : Finished(t) /\ whiteListed(opts, req[t].ip) =>
        /\ Served(resp[t])
        /\ ~Rejected(resp[t])
        /\ resp[t].status # 429

\* C3: an allow-listed identity is never a key of the registry, and visitor
\* is never called for it.
C3_AllowListedNotStored ==
    \A ip \in IPs : whiteListed(opts, ip) =>
        /\ storage[ip] = 0
        /\ InFlight(ip) = {}
        /\ hist[ip].calls = 0

\* C4: no call of Stop, the second and later ones included, panics.
C4_StopNeverPanics == ~panicked

\* C5: with refill rate 0 and capacity C, over sequential admit calls for
\* one identity that is not allow-listed and whose entry is not evicted in
\* between, the admitted calls number min(calls, C) after every call: the
\* first C calls are admitted and every later one is rejected.
C5_FirstCapacityCallsAdmitted ==
    \A ip \in IPs :
        (opts.requests = 0 /\ opts.period > 0 /\ ~whiteListed(opts, ip) /\ ~hist[ip].overlap)
            => hist[ip].admits = Min(hist[ip].calls, opts.burst)

\* C5 witness: with capacity 1 and rate 0, two sequential calls for one
\* identity were made; the first was admitted and the second rejected.
C5_Witness ==
    \E ip \in IPs :
        /\ opts.requests = 0 /\ opts.period > 0 /\ opts.burst = 1
        /\ ~whiteListed(opts, ip) /\ ~hist[ip].overlap
        /\ hist[ip].calls = 2 /\ hist[ip].admits = 1
        /\ Finished("t2") /\ req["t2"].ip = ip /\ Rejected(resp["t2"])

\* C6: with capacity 1 and a rate R > 0, a request decided at the very time
\* of the identity's last admission is rejected, and one decided at least
\* 1/R after it is admitted.
C6_RejectThenRefill ==
    [][\A t \in Threads :
          (Responds(t) /\ opts.burst = 1 /\ limit.kind = "fin" /\ limit.num > 0
             /\ lastAdmit[req[t].ip] >= 0)
          => /\ lastAdmit[req[t].ip] = now => Rejected(resp'[t])
             /\ (now - lastAdmit[req[t].ip]) * limit.num >= limit.den => ~Rejected(resp'[t])
      ]_vars

\* C7: while Stop has not been called, an entry that has aged to the TTL and
\* has no request in flight is removed by a sweep (a tick still being ahead
\* on the bounded clock); and an insert, the next admit's included, stores
\* under the identity a new bucket that holds its full capacity.
Running == stop = "open" /\ ~panicked
Aged(ip) == storage[ip] # 0 /\ now - recs[storage[ip]].lastSeen >= opts.ttl
TickAhead == \E k \in (now + 1)..MaxTime : k % opts.cleanupFreq = 0
C7_IdleEntryEvicted ==
    /\ \A ip \in IPs :
          (Aged(ip) /\ Running /\ TickAhead)
              ~> (storage[ip] = 0 \/ ~Running \/ InFlight(ip) # {})
    /\ [][\A t \in Threads :
            (pc[t] = "insert" /\ pc'[t] = "allow")
                => /\ storage'[req[t].ip] = v'[t]
                   /\ recs'[v'[t]].tokens = opts.burst * limit.den
                   /\ recs'[v'[t]].burst = opts.burst
                   /\ recs'[v'[t]].lastSeen = now
        ]_vars

\* C7 witness: Stop was not called, the entry of PlainIP was removed by a
\* sweep, and the request that came next holds, after its insert, a new
\* bucket with a full capacity of at least one token.
C7_Witness ==
    /\ Running
    /\ hist[PlainIP].evicted /\ hist[PlainIP].created = 1 /\ ~hist[PlainIP].overlap
    /\ pc["t2"] = "allow" /\ req["t2"].ip = PlainIP
    /\ storage[PlainIP] = v["t2"]
    /\ opts.burst > 0
    /\ recs[v["t2"]].tokens = opts.burst * limit.den

\* C8: the evictor only goes from running to stopped and stays there, and
\* once the stop channel is closed no sweep is started.
C8_NoSweepAfterStop ==
    [][/\ epc = "returned" => epc' = "returned"
       /\ ~(stop = "closed" /\ epc = "select" /\ epc' = "scan")
      ]_vars

\* C9: an option constructor given a negative argument leaves the
\* documented default in the parameter it sets (rps 10, burst 20, TTL 300 s,
\* period 1 s), and New can start its ticker.
C9_NegativeArgumentsDefaulted ==
    /\ (lastOpt.name = "RpsWithBurst" /\ lastOpt.a < 0) => opts.requests = defaultRps
    /\ (lastOpt.name = "RpsWithBurst" /\ lastOpt.b < 0) => opts.burst = defaultBurst
    /\ (lastOpt.name = "Rps" /\ lastOpt.a < 0) => opts.requests = defaultRps
    /\ (lastOpt.name = "Burst" /\ lastOpt.a < 0) => opts.burst = defaultBurst
    /\ (lastOpt.name = "Period" /\ lastOpt.a < 0) => opts.requests = defaultRps
    /\ (lastOpt.name = "Period" /\ lastOpt.b < 0) => opts.period = defaultPeriod
    /\ (lastOpt.name = "RecordTTL" /\ lastOpt.a < 0) => opts.ttl = defaultTTL
    /\ opts.cleanupFreq > 0

\* C10: with burst 0 and a finite rate every finished request of an identity
\* that is not allow-listed was rejected with 429 and never served.
C10_ZeroBurstRejectsAll ==
    /\ \A t \in Threads :
          (Finished(t) /\ opts.burst = 0 /\ limit.kind = "fin" /\ ~whiteListed(opts, req[t].ip))
              => resp[t] = TooManyRequests(NoResp)
    /\ \A ip \in IPs :
          (opts.burst = 0 /\ limit.kind = "fin" /\ ~whiteListed(opts, ip))
              => hist[ip].admits = 0

\* C10 witness: with burst 0 and a finite rate both requests, made at
\* different times for one identity that is not allow-listed, were rejected.
C10_Witness ==
    /\ opts.burst = 0 /\ limit.kind = "fin" /\ now > 0
    /\ \A t \in Threads :
          /\ Finished(t) /\ ~whiteListed(opts, req[t].ip)
          /\ req[t].ip = PlainIP
          /\ resp[t].status = 429
    /\ hist[PlainIP].calls = 2

\* C11: the empty identity is one shared key: while its entry has not been
\* idle for the TTL the entry stored under "" is never removed or replaced,
\* so every visitor("") gets that one bucket; and with rate 0 the callers
\* without an identity are admitted, together, at most capacity times.
C11_EmptyIdentityShared ==
    /\ [][(storage[EmptyIP] # 0 /\ storage'[EmptyIP] # storage[EmptyIP])
             => hist[EmptyIP].idle]_vars
    /\ [](( /\ ~hist[EmptyIP].evicted /\ ~hist[EmptyIP].idle
            /\ limit.kind = "fin" /\ limit.num = 0)
             => hist[EmptyIP].admits <= opts.burst)

C14_SweepRemovesAged ==
    [][/\ (epc = "scan" /\ epc' = "lock") => \A ip \in IPs : Aged(ip) => ip \in exp'
       /\ (epc \in {"lock", "delete"} /\ epc' # "select") => exp' = exp
       /\ (epc = "delete" /\ epc' = "select") => \A ip \in exp : storage'[ip] = 0
      ]_vars

\* C14 witness: a sweep has scanned the entry of PlainIP at an age of
\* exactly ttl, holds its key in exp and has taken the lock to delete it.
C14_Witness ==
    /\ epc = "delete" /\ rw = Evictor
    /\ PlainIP \in exp /\ storage[PlainIP] # 0
    /\ now - recs[storage[PlainIP]].lastSeen = opts.ttl

\* C15: a sweep deletes only keys whose entry was aged ttl or more when the
\* sweep scanned it: after the scan every key of exp that has an entry has
\* an aged one, the key "" included, and a key leaves the registry only in
\* the delete of a sweep that holds it in exp.
C15_SweepRemovesOnlyAged ==
    [][/\ (epc = "scan" /\ epc' = "lock") =>
             \A ip \in exp' : storage[ip] # 0 => Aged(ip)
       /\ \A ip \in IPs : (storage[ip] # 0 /\ storage'[ip] = 0) => (epc = "delete" /\ ip \in exp)
      ]_vars

\* C16: when visitor(ip) returns, on the miss path or the found path, and no
\* sweep deleted the key since the call's lookup, the registry holds an
\* entry for ip whose lastSeen is the time of the return, so not earlier
\* than the start of the call; the Allow() that follows does not change it.
C16_VisitorMarksSeen ==
    [][\A t \in Threads :
          /\ (pc[t] \in {"insert", "touch"} /\ pc'[t] = "allow" /\ ~call[t].swept)
                => /\ storage'[req[t].ip] \notin {0, NilRec}
                   /\ recs'[storage'[req[t].ip]].lastSeen = now
          /\ (Responds(t) /\ storage[req[t].ip] \notin {0, NilRec})
                => /\ storage'[req[t].ip] = storage[req[t].ip]
                   /\ recs'[storage[req[t].ip]].lastSeen = recs[storage[req[t].ip]].lastSeen
      ]_vars

\* C16 witness: the second request for PlainIP, made later than the first,
\* found the entry and was rejected, and the entry's lastSeen is the time
\* of that request.
C16_Witness ==
    /\ Finished("t2") /\ req["t2"].ip = PlainIP /\ Rejected(resp["t2"])
    /\ ~hist[PlainIP].evicted /\ hist[PlainIP].created = 1 /\ hist[PlainIP].calls = 2
    /\ ~hist[PlainIP].overlap
    /\ now > 0 /\ storage[PlainIP] # 0 /\ recs[storage[PlainIP]].lastSeen = now

InVisitor(t) == pc[t] \in {"visitor", "miss", "hit", "insert", "touch"} /\ pc'[t] # pc[t]

\* C17: a step of visitor(ip) removes no key and changes neither the key nor
\* the record of any identity other than ip; a key leaves the registry only
\* in the delete step of a sweep.
C17_LookupNeverShrinks ==
    [][/\ \A t \in Threads : InVisitor(t) =>
             /\ \A k \in IPs : storage[k] # 0 => storage'[k] # 0
             /\ \A k \in IPs \ {req[t].ip} :
                   /\ storage'[k] = storage[k]
                   /\ storage[k] \notin {0, NilRec} => recs'[storage[k]] = recs[storage[k]]
       /\ \A k \in IPs : (storage[k] # 0 /\ storage'[k] = 0) => (epc = "delete" /\ epc' = "select")
      ]_vars

\* C17 witness: visitor has just inserted PlainIP, its first request still
\* undecided, while the key of the empty identity, stored before, is held.
C17_Witness ==
    /\ pc["t2"] = "allow" /\ req["t2"].ip = PlainIP /\ hist[PlainIP].calls = 0
    /\ storage[PlainIP] = v["t2"] /\ hist[PlainIP].created = 1
    /\ Finished("t1") /\ req["t1"].ip = EmptyIP /\ storage[EmptyIP] # 0

\* C18: every write of the registry map (insert, delete) is made by the
\* holder of the exclusive lock, and every read of it (visitor's lookup,
\* cleanup's size query and cleanup's scan) is made while no other
\* goroutine holds the exclusive lock, so no read overlaps a write.
C18_MapAccessLocked ==
    [][/\ storage' # storage =>
             \/ rw \in Threads /\ pc[rw] = "insert" /\ pc'[rw] = "allow"
             \/ rw = Evictor /\ epc = "delete"
       /\ \A t \in Threads : (pc[t] = "visitor" /\ pc'[t] # "visitor") => rw = NoWriter
       /\ (epc = "scan" /\ epc' = "lock") => rw = NoWriter
       /\ (epc = "select" /\ epc' = "scan") => rw = NoWriter
      ]_vars

\* C19: in every state each key of the registry holds a record, never nil,
\* with a bucket of the configured capacity, and a goroutine on visitor's
\* found path, or about to call Allow(), holds a record and not nil.
C19_NoNilRecord ==
    /\ \A ip \in IPs :
          /\ storage[ip] \in 0..MaxRecs
          /\ storage[ip] # 0 => recs[storage[ip]].burst = opts.burst
    /\ \A t \in Threads :
          pc[t] \in {"hit", "touch", "allow"}
              => (v[t] \in 1..MaxRecs /\ recs[v[t]].burst = opts.burst)

\* C19 witness: a goroutine found the entry of PlainIP, a sweep then deleted
\* the key, and the goroutine now holds the lock to set lastSeen on the
\* record it found.
C19_Witness ==
    /\ pc["t2"] = "touch" /\ req["t2"].ip = PlainIP /\ call["t2"].swept
    /\ storage[PlainIP] = 0 /\ hist[PlainIP].evicted
    /\ v["t2"] \in 1..MaxRecs /\ opts.burst > 0

Waiting(t) == pc[t] \in {"visitor", "miss", "hit", "insert", "touch"}
Sweeping == epc \in {"scan", "lock", "delete"}

\* C20: the exclusive lock is held only by a goroutine inside its critical
\* section and is taken only when free, never by its holder; and under fair
\* scheduling, unless the process dies of a panic, every held lock is
\* released, every visitor call returns and every sweep completes.
C20_NoDeadlock ==
    /\ [](/\ rw \in Threads => pc[rw] \in {"insert", "touch"}
          /\ rw = Evictor => epc = "delete"
          /\ \A t \in Threads : pc[t] \in {"insert", "touch"} => rw = t
          /\ epc = "delete" => rw = Evictor)
    /\ [][rw' # rw => (rw = NoWriter \/ rw' = NoWriter)]_vars
    /\ (rw # NoWriter) ~> (rw = NoWriter \/ panicked)
    /\ \A t \in Threads : Waiting(t) ~> (~Waiting(t) \/ panicked)
    /\ Sweeping ~> (~Sweeping \/ panicked)

\* C20 witness: a goroutine holds the lock to insert while the other
\* goroutine, past its lookup, and the sweep, past its scan, both wait for
\* that lock.
C20_Witness ==
    /\ rw = "t1" /\ pc["t1"] = "insert"
    /\ pc["t2"] \in {"miss", "hit"}
    /\ epc = "lock" /\ ~panicked
=============================================================================
